---- MODULE Spec2Model ----
(***************************************************************************)
(* Model of the NiceGUI dashboard adapter of TwitchDropsMiner:              *)
(*   - the lifecycle gate of WebUIManager (close / prevent_close /          *)
(*     wait_until_closed / coro_unless_closed) on the asyncio event loop,   *)
(*   - the inventory filter predicate in its two implementations            *)
(*     (webui/utils.py and the monolithic webui.py),                        *)
(*   - the control surface state (running flag, store, filters, websocket   *)
(*     map, console log, view).                                             *)
(*   - the handlers of the UI events on the NiceGUI server thread, next to  *)
(*     the calls the application makes on its own event loop,               *)
(*   - the selection of the backend (ui_factory.py) and the progress of a   *)
(*     campaign (webui/utils.py), as functions of their inputs.             *)
(***************************************************************************)
EXTENDS Integers, Sequences, FiniteSets, TLC

(***************************************************************************)
(* Bounds of the model.                                                     *)
(***************************************************************************)
\* largest number of await points of the operation handed to coro_unless_closed
MaxOpSteps == 2
\* largest number of entries of the console log in a run of the control surface
MaxLog == 3
\* largest number of campaigns in the store
MaxCampaigns == 2
\* largest number of prevent_close() calls in a run of the gate
MaxPrevents == 2
\* largest number of entries of the console log in a run of the rendered view
MaxViewLog == 37
\* largest number of page loads in a run of the rendered view or of the console
MaxLoads == 1
\* largest number of entries of the console log in a run of the console
MaxPrints == 52
\* largest number of entries of the console log in a run of the displays
MaxDisplayLog == 2
\* largest number of entries of the console log in a run of the two threads
MaxThreadLog == 24
\* largest number of drops of the campaign handed to get_campaign_progress
MaxDrops == 2
\* largest number of entries of the console log in a run of the store
MaxStoreLog == 7

(***************************************************************************)
(* Names.                                                                   *)
(***************************************************************************)
\* callers of wait_until_closed, each running in a task of its own
Waiters == {"w1", "w2"}
\* tasks whose coroutine is Event.wait()
WaitTasks == {"gate"} \cup Waiters
\* every task of the loop: the caller of coro_unless_closed, the two tasks
\* it creates with ensure_future, and the plain waiters
AllTasks == {"caller", "op", "gate"} \cup Waiters
\* the handles the loop's ready queue can hold: a task step, or the
\* _on_completion callback asyncio.wait attached to a racing task
Handles == AllTasks \cup {"cb_op", "cb_gate"}
\* what the wrapped operation ends with: a value, or an exception of its own
OpResults == {"r1", "r2", "error"}
\* what Event.wait() returns
GateResult == "True"

VARIABLES
    close_requested,  \* asyncio.Event._value of WebUIManager._close_requested
    ev_waiters,       \* asyncio.Event._waiters: the futures, by owning task
    futState,         \* state of the future Event.wait() created in a task
    tstate,           \* state of every task
    must_cancel,      \* Task._must_cancel / a cancelled awaited future
    ready,            \* the loop's FIFO ready queue
    opLeft,           \* await points the operation still has to pass
    opResult,         \* what the operation ends with
    cbRegistered,     \* asyncio.wait's _on_completion is attached to the tasks
    waiterDone,       \* asyncio.wait's waiter future has its result
    race,             \* terminal outcome of the coro_unless_closed call
    running,          \* WebUIManager._running
    console_log,      \* WebUIManager._console_log
    appShutdown,      \* app.shutdown() has been called (close_window)
    console_view,     \* the lines held by the ui.log widget WebUIManager._console
    campaigns,        \* WebUIManager._campaigns, in insertion order
    inventory_filters,\* WebUIManager._inventory_filters
    inv_rows,         \* the children of WebUIManager._inventory_container
    ws_items,         \* MockWebsocketStatus._items
    ui_built,         \* the page function has run: the widget references are set
    panel,            \* what the status and progress widgets of the page show
    fq,               \* the arguments of one evaluation of the filter predicate
                      \* (a campaign object instead of its data in SpecPaths)
    fres,             \* what the two implementations returned for fq
    srv,              \* the handler running on the NiceGUI server thread
    env,              \* the environment create_gui_manager is called in
    gui_manager,      \* what create_gui_manager returned or raised
    drops,            \* campaign.drops of one call of get_campaign_progress
    campaign_progress,\* what get_campaign_progress returned for drops
    hist              \* history of the run, read by the properties only

gateVars == <<close_requested, ev_waiters, futState, tstate, must_cancel,
              ready, opLeft, opResult, cbRegistered, waiterDone, race>>
lifeVars == <<running, appShutdown>>
logVars == <<console_log, console_view>>
invVars == <<campaigns, inventory_filters, inv_rows>>
builtVars == <<ui_built, panel>>
surfaceVars == <<lifeVars, logVars, invVars, ws_items, builtVars>>
filterVars == <<fq, fres>>
threadVars == <<srv>>
factoryVars == <<env, gui_manager>>
progressVars == <<drops, campaign_progress>>
pureVars == <<filterVars, factoryVars, progressVars>>
restVars == <<pureVars, threadVars>>
vars == <<gateVars, surfaceVars, restVars, hist>>

(***************************************************************************)
(* Small helpers.                                                           *)
(***************************************************************************)
\* the sequence s without its entries equal to x
Without(s, x) == SelectSeq(s, LAMBDA y : y # x)

\* a task that has finished, normally or by cancellation (Task.done())
Finished(ts, t) == ts[t] \in {"done", "cancelled"}

(***************************************************************************)
(* The inventory filter predicate.                                          *)
(***************************************************************************)
FilterNames == {"not_linked", "upcoming", "active", "expired", "excluded",
                "finished"}

\* every value of WebUIManager._inventory_filters
FilterSets == [FilterNames -> BOOLEAN]

\* the status strings a campaign_data entry can carry ("" when it has none)
Statuses == {"Active", "Upcoming", "Expired", "Finished", "Unknown", ""}

\* str.lower() on those strings
Lower(status) ==
    CASE status = "Active"   -> "active"
      [] status = "Upcoming" -> "upcoming"
      [] status = "Expired"  -> "expired"
      [] status = "Finished" -> "finished"
      [] status = "Unknown"  -> "unknown"
      [] OTHER               -> ""

\* the four lifecycle buckets the predicate knows
Buckets == {"upcoming", "active", "expired", "finished"}

GameNames == {"g1", "g2"}

\* campaign_data entries: "live" tells whether campaign_obj is an object;
\* "eligible" and "game" are the object's attributes, which may be absent
CampaignData ==
    [status : Statuses, live : {FALSE}, eligible : {"absent"}, game : {"absent"}]
    \cup
    [status : Statuses, live : {TRUE}, eligible : {"absent", "yes", "no"},
     game : {"absent"} \cup GameNames]

\* getattr(campaign, 'eligible', True)
Eligible(data) == data.eligible # "no"

\* (mutation of should_show_campaign_with_filters: the eligibility check
\* comes after the status checks)
should_show_late_eligibility(data, filters) ==
    LET status == Lower(data.status)
    IN  IF ~data.live
        THEN IF ~(\E f \in FilterNames : filters[f]) THEN FALSE
             ELSE IF status \in Buckets THEN filters[status] ELSE FALSE
        ELSE IF status \in Buckets THEN filters[status]
        ELSE IF filters["not_linked"] /\ ~Eligible(data) THEN FALSE
        ELSE TRUE

\* (mutation of should_show_campaign_with_filters: an active campaign is
\* always shown)
should_show_active_always(data, filters) ==
    LET status == Lower(data.status)
    IN  IF ~data.live
        THEN IF ~(\E f \in FilterNames : filters[f]) THEN FALSE
             ELSE IF status \in Buckets THEN filters[status] ELSE FALSE
        ELSE IF filters["not_linked"] /\ ~Eligible(data) THEN FALSE
        ELSE IF status = "active" THEN TRUE
        ELSE IF status \in Buckets THEN filters[status]
        ELSE TRUE

\* (mutation of should_show_campaign_with_filters: the "finished" status is
\* looked up against the "expired" flag)
should_show_finished_as_expired(data, filters) ==
    LET status == Lower(data.status)
    IN  IF ~data.live
        THEN IF ~(\E f \in FilterNames : filters[f]) THEN FALSE
             ELSE IF status = "finished" THEN filters["expired"]
             ELSE IF status \in Buckets THEN filters[status] ELSE FALSE
        ELSE IF filters["not_linked"] /\ ~Eligible(data) THEN FALSE
        ELSE IF status \in Buckets THEN filters[status]
        ELSE TRUE

\* webui/utils.py: should_show_campaign_with_filters(campaign_data, filters)
should_show_campaign_with_filters(data, filters) ==
    LET show_not_linked == filters["not_linked"]
        show_upcoming   == filters["upcoming"]
        show_active     == filters["active"]
        show_expired    == filters["expired"]
        show_excluded   == filters["excluded"]
        show_finished   == filters["finished"]
        status          == Lower(data.status)
        any_filter_enabled ==
            show_not_linked \/ show_upcoming \/ show_active \/ show_expired
            \/ show_excluded \/ show_finished
    IN  IF ~data.live
        THEN IF ~any_filter_enabled THEN FALSE
             ELSE IF status = "upcoming" THEN show_upcoming
             ELSE IF status = "active" THEN show_active
             ELSE IF status = "expired" THEN show_expired
             ELSE IF status = "finished" THEN show_finished
             ELSE FALSE
        ELSE IF show_not_linked /\ ~Eligible(data) THEN FALSE
        ELSE IF status = "upcoming" THEN show_upcoming
        ELSE IF status = "active" THEN show_active
        ELSE IF status = "expired" THEN show_expired
        ELSE IF status = "finished" THEN show_finished
        ELSE TRUE

\* (mutation of should_show_campaign: the excluded game list is consulted
\* before the status checks)
should_show_excluded_first(data, filters, exclude) ==
    LET status == Lower(data.status)
    IN  IF ~data.live
        THEN IF ~(\E f \in FilterNames : filters[f]) THEN FALSE
             ELSE IF status \in Buckets THEN filters[status] ELSE FALSE
        ELSE IF filters["not_linked"] /\ ~Eligible(data) THEN FALSE
        ELSE IF data.game # "absent" /\ data.game \in exclude
                /\ ~filters["excluded"] THEN FALSE
        ELSE IF status \in Buckets THEN filters[status]
        ELSE TRUE

\* webui.py: WebUIManager._should_show_campaign(campaign_data), with
\* self._inventory_filters and twitch.settings.exclude as arguments
should_show_campaign(data, filters, exclude) ==
    LET show_not_linked == filters["not_linked"]
        show_upcoming   == filters["upcoming"]
        show_active     == filters["active"]
        show_expired    == filters["expired"]
        show_excluded   == filters["excluded"]
        show_finished   == filters["finished"]
        status          == Lower(data.status)
        any_filter_enabled ==
            show_not_linked \/ show_upcoming \/ show_active \/ show_expired
            \/ show_excluded \/ show_finished
        is_excluded     == data.game # "absent" /\ data.game \in exclude
    IN  IF ~data.live
        THEN IF ~any_filter_enabled THEN FALSE
             ELSE IF status = "upcoming" THEN show_upcoming
             ELSE IF status = "active" THEN show_active
             ELSE IF status = "expired" THEN show_expired
             ELSE IF status = "finished" THEN show_finished
             ELSE FALSE
        ELSE IF show_not_linked /\ ~Eligible(data) THEN FALSE
        ELSE IF status = "upcoming" THEN show_upcoming
        ELSE IF status = "active" THEN show_active
        ELSE IF status = "expired" THEN show_expired
        ELSE IF status = "finished" THEN show_finished
        ELSE IF is_excluded /\ ~show_excluded THEN FALSE
        ELSE TRUE

\* the excluded game lists the evaluations are run with
ExcludeLists == {{}, {"g1"}}

Queries == [data : CampaignData, filters : FilterSets, exclude : ExcludeLists]

NoQuery ==
    [data |-> [status |-> "", live |-> FALSE, eligible |-> "absent",
               game |-> "absent"],
     filters |-> [f \in FilterNames |-> FALSE],
     exclude |-> {}]

NoResult == [evaluated |-> FALSE, pkg |-> FALSE, mono |-> FALSE]

\* connection indices of the websocket pool
WsAll == {0, 1}
\* the indices the runs of the control surface update
WsIdx == {0}

\* the widget references of the status and progress displays while they are
\* None (WebUIManager.__init__), and what the widgets show when the page
\* function has created them ("0" and "0.5" are values of the progress bar)
PanelNone ==
    [status_card |-> "None", status_label |-> "None",
     progress_bar |-> "None", progress_label |-> "None"]
PanelCreated ==
    [status_card |-> "Initializing...", status_label |-> "Starting...",
     progress_bar |-> "0", progress_label |-> "0.0%"]

\* an index MockWebsocketStatus._items has no entry for
WsAbsent == [present |-> FALSE, status |-> "", topics |-> 0]

\* MockWebsocketStatus.__init__: self._items = {}
WsEmpty == [i \in WsAll |-> WsAbsent]

(***************************************************************************)
(* The state after WebUIManager.__init__.                                   *)
(***************************************************************************)
\* an environment variable that is not set
Unset == "<unset>"

\* the environment of a process that sets none of the three variables, with
\* nicegui installed
NoEnv == [UI_BACKEND |-> Unset, WEBUI_HOST |-> Unset, WEBUI_PORT |-> Unset,
          nicegui |-> TRUE]

\* no call of create_gui_manager has returned
NoManager == [kind |-> "none", host |-> "", port |-> 0, warned |-> FALSE]

\* no call of get_campaign_progress has returned
NoProgress == [evaluated |-> FALSE, value |-> 0]

\* the server thread (run_server, started by _start_server) with no handler
\* of a UI event in progress
SrvIdle == [pc |-> "idle", todo |-> <<>>, old |-> {}]

HistInit ==
    [ closedPending   |-> FALSE,   \* close() came while the race was pending on an
                                   \* unfinished operation, no prevent_close() since
      closeSinceStart |-> FALSE,   \* the gate was closed at some moment of the race
      opWon           |-> FALSE,   \* the operation finished with the gate never closed
      lateSteps       |-> {},      \* tasks that ran a step after the race ended
      sawClose        |-> [w \in Waiters |-> FALSE],
                                   \* the gate was closed at some moment of w's wait
      lastCall        |-> "init",  \* the last method of the manager that ran
      recovered       |-> FALSE ]  \* prevent_close() has reopened a closed gate,
                                   \* and close() was not called since

InitManager ==
    /\ close_requested = FALSE
    /\ ev_waiters = <<>>
    /\ futState = [t \in WaitTasks |-> "none"]
    /\ tstate = [t \in AllTasks |-> "none"]
    /\ must_cancel = [t \in AllTasks |-> FALSE]
    /\ ready = <<>>
    /\ opLeft = 0
    /\ opResult = "r1"
    /\ cbRegistered = FALSE
    /\ waiterDone = FALSE
    /\ race = [kind |-> "none", value |-> "none", gateSet |-> FALSE]
    /\ running = FALSE
    /\ console_log = <<>>
    /\ appShutdown = FALSE
    /\ console_view = <<>>
    /\ campaigns = <<>>
    /\ inventory_filters = [f \in FilterNames |-> FALSE]
    /\ inv_rows = <<>>
    /\ ws_items = WsEmpty
    /\ ui_built = FALSE
    /\ panel = PanelNone
    /\ srv = SrvIdle
    /\ hist = HistInit

Init ==
    /\ InitManager
    /\ fq = NoQuery
    /\ fres = NoResult
    /\ env = NoEnv
    /\ gui_manager = NoManager
    /\ drops = <<>>
    /\ campaign_progress = NoProgress

(***************************************************************************)
(* asyncio.Event, as WebUIManager._close_requested uses it.                 *)
(***************************************************************************)
\* (mutation of EventSetWakes: only the oldest waiter is released)
EventSetWakesFirst(value, waiters, fs) ==
    LET all == IF value THEN <<>>
               ELSE SelectSeq(waiters, LAMBDA t : fs[t] = "pending")
    IN  IF all = <<>> THEN <<>> ELSE <<Head(all)>>

\* Event.set(): the futures of _waiters it resolves, in deque order
EventSetWakes(value, waiters, fs) ==
    IF value THEN <<>> ELSE SelectSeq(waiters, LAMBDA t : fs[t] = "pending")

(***************************************************************************)
(* WebUIManager.print.  A message is the sequence of its lines (what        *)
(* message.split('\n') gives), "" being a blank line.                       *)
(***************************************************************************)
\* max_lines of the ui.log widget
ConsoleMaxLines == 50

\* the console log with the formatted message appended
ManagerPrint(log, message) == Append(log, message)

\* the lines of the message pushed to the widget: each non-blank line of a
\* multi-line message, or the single line as it is
PushedLines(message) ==
    IF Len(message) > 1 THEN SelectSeq(message, LAMBDA l : l # "") ELSE message

\* ui.log.push(line): the widget keeps the last max_lines lines
LogPush(view, line) ==
    IF Len(view) >= ConsoleMaxLines THEN Append(Tail(view), line)
                                    ELSE Append(view, line)

RECURSIVE LogPushAll(_, _)
LogPushAll(view, lines) ==
    IF lines = <<>> THEN view
    ELSE LogPushAll(LogPush(view, Head(lines)), Tail(lines))

\* what print() does to the widget: nothing while self._console is None
ConsolePush(view, built, message) ==
    IF built THEN LogPushAll(view, PushedLines(message)) ELSE view

\* the step leaves at most n entries in the console log
LogWithin(n) == Len(console_log') <= n

\* (mutation of EventClear: the flag is left as it is)
EventClearKeeps(value) == value

\* Event.clear(): the value of the flag afterwards
EventClear(value) == FALSE

\* (mutation of EventWaitReturnsNow: wait() never suspends)
EventWaitNeverSuspends(value) == TRUE

\* Event.wait(): TRUE when the call returns at once, without suspending
EventWaitReturnsNow(value) == value

(***************************************************************************)
(* WebUIManager.close, prevent_close, wait_until_closed.                    *)
(***************************************************************************)
RacePending == tstate["caller"] \in {"blocked", "ready"}

\* (mutation of close: every call also writes a line to the console log)
close_logging ==
    LET wakes == EventSetWakes(close_requested, ev_waiters, futState)
        woken == {wakes[i] : i \in DOMAIN wakes}
    IN  /\ close_requested' = TRUE
        /\ futState' = [t \in WaitTasks |->
                          IF t \in woken THEN "done" ELSE futState[t]]
        /\ tstate' = [t \in AllTasks |->
                          IF t \in woken THEN "ready" ELSE tstate[t]]
        /\ ready' = ready \o wakes
        /\ console_log' = ManagerPrint(console_log, <<"close requested">>)
        /\ console_view' = ConsolePush(console_view, ui_built, <<"close requested">>)
        /\ UNCHANGED <<ev_waiters, must_cancel, opLeft, opResult,
                       cbRegistered, waiterDone, race>>
        /\ UNCHANGED <<lifeVars, invVars, ws_items, builtVars, restVars>>
        /\ hist' = [hist EXCEPT
              !.closedPending = @ \/ (RacePending /\ tstate["op"] # "done"),
              !.closeSinceStart = @ \/ RacePending,
              !.sawClose = [w \in Waiters |->
                              @[w] \/ tstate[w] \in {"blocked", "ready"}],
              !.recovered = FALSE,
              !.lastCall = IF close_requested THEN "close again" ELSE "close"]

\* (mutation of close: the call goes on to stop() and close_window())
close_stopping ==
    LET wakes == EventSetWakes(close_requested, ev_waiters, futState)
        woken == {wakes[i] : i \in DOMAIN wakes}
    IN  /\ close_requested' = TRUE
        /\ futState' = [t \in WaitTasks |->
                          IF t \in woken THEN "done" ELSE futState[t]]
        /\ tstate' = [t \in AllTasks |->
                          IF t \in woken THEN "ready" ELSE tstate[t]]
        /\ ready' = ready \o wakes
        /\ running' = FALSE
        /\ appShutdown' = TRUE
        /\ UNCHANGED <<ev_waiters, must_cancel, opLeft, opResult,
                       cbRegistered, waiterDone, race>>
        /\ UNCHANGED <<logVars, invVars, ws_items, builtVars, restVars>>
        /\ hist' = [hist EXCEPT
              !.closedPending = @ \/ (RacePending /\ tstate["op"] # "done"),
              !.closeSinceStart = @ \/ RacePending,
              !.sawClose = [w \in Waiters |->
                              @[w] \/ tstate[w] \in {"blocked", "ready"}],
              !.recovered = FALSE,
              !.lastCall = IF close_requested THEN "close again" ELSE "close"]

close ==
    LET wakes == EventSetWakes(close_requested, ev_waiters, futState)
        woken == {wakes[i] : i \in DOMAIN wakes}
    IN  /\ close_requested' = TRUE
        /\ futState' = [t \in WaitTasks |->
                          IF t \in woken THEN "done" ELSE futState[t]]
        /\ tstate' = [t \in AllTasks |->
                          IF t \in woken THEN "ready" ELSE tstate[t]]
        /\ ready' = ready \o wakes
        /\ UNCHANGED <<ev_waiters, must_cancel, opLeft, opResult,
                       cbRegistered, waiterDone, race>>
        /\ UNCHANGED <<surfaceVars, restVars>>
        /\ hist' = [hist EXCEPT
              !.closedPending = @ \/ (RacePending /\ tstate["op"] # "done"),
              !.closeSinceStart = @ \/ RacePending,
              !.sawClose = [w \in Waiters |->
                              @[w] \/ tstate[w] \in {"blocked", "ready"}],
              !.recovered = FALSE,
              !.lastCall = IF close_requested THEN "close again" ELSE "close"]

prevent_close ==
    /\ close_requested' = EventClear(close_requested)
    /\ console_log' = ManagerPrint(console_log, <<"prevented from closing">>)
    /\ console_view' = ConsolePush(console_view, ui_built, <<"prevented from closing">>)
    /\ UNCHANGED <<ev_waiters, futState, tstate, must_cancel, ready, opLeft,
                   opResult, cbRegistered, waiterDone, race>>
    /\ UNCHANGED <<lifeVars, invVars, ws_items, builtVars, restVars>>
    /\ hist' = [hist EXCEPT !.closedPending = FALSE,
                            !.recovered = @ \/ close_requested,
                            !.lastCall = "prevent_close"]

\* a task calls wait_until_closed: it returns at once when the gate is
\* closed, and suspends on a new future of Event._waiters otherwise
wait_until_closed(w) ==
    /\ tstate[w] \in {"none", "done"}
    /\ IF EventWaitReturnsNow(close_requested)
       THEN /\ tstate' = [tstate EXCEPT ![w] = "done"]
            /\ UNCHANGED <<futState, ev_waiters>>
       ELSE /\ tstate' = [tstate EXCEPT ![w] = "blocked"]
            /\ futState' = [futState EXCEPT ![w] = "pending"]
            /\ ev_waiters' = Append(ev_waiters, w)
    /\ UNCHANGED <<close_requested, must_cancel, ready, opLeft, opResult,
                   cbRegistered, waiterDone, race>>
    /\ UNCHANGED <<surfaceVars, restVars>>
    /\ hist' = [hist EXCEPT !.sawClose[w] = close_requested,
                            !.lastCall = "wait_until_closed"]

\* the loop resumes a released waiter: Event.wait() removes its future from
\* _waiters and returns True
StepWaiter(w) ==
    /\ ready # <<>> /\ Head(ready) = w
    /\ ready' = Tail(ready)
    /\ tstate' = [tstate EXCEPT ![w] = "done"]
    /\ futState' = [futState EXCEPT ![w] = "none"]
    /\ ev_waiters' = Without(ev_waiters, w)
    /\ UNCHANGED <<close_requested, must_cancel, opLeft, opResult,
                   cbRegistered, waiterDone, race>>
    /\ UNCHANGED <<surfaceVars, restVars>>
    /\ hist' = [hist EXCEPT !.lastCall = "resume"]

(***************************************************************************)
(* WebUIManager.coro_unless_closed and the two tasks it races.              *)
(***************************************************************************)
Racers == {"op", "gate"}

\* the first half, up to "await asyncio.wait(...)": both tasks are created
\* and scheduled, _on_completion is attached to both, the caller suspends
coro_unless_closed_start ==
    /\ tstate["caller"] = "none"
    /\ \E n \in 0..MaxOpSteps, r \in OpResults :
          /\ opLeft' = n
          /\ opResult' = r
    /\ tstate' = [tstate EXCEPT !["caller"] = "blocked",
                                !["op"] = "ready", !["gate"] = "ready"]
    /\ ready' = ready \o <<"op", "gate">>
    /\ cbRegistered' = TRUE
    /\ UNCHANGED <<close_requested, ev_waiters, futState, must_cancel,
                   waiterDone, race>>
    /\ UNCHANGED <<surfaceVars, restVars>>
    /\ hist' = [hist EXCEPT !.closeSinceStart = close_requested,
                            !.lastCall = "coro_unless_closed"]

\* the handles a finished racer adds to the ready queue: its done callback,
\* as long as asyncio.wait has it attached
DoneCallbacks(t, registered) ==
    IF registered THEN <<IF t = "op" THEN "cb_op" ELSE "cb_gate">> ELSE <<>>

NoteLate(t) == IF race.kind # "none" THEN hist.lateSteps \cup {t}
                                     ELSE hist.lateSteps

\* the loop runs a step of the wrapped operation: CancelledError is thrown
\* into it when it was cancelled; otherwise it runs to its next await point,
\* or to its end
StepOp ==
    /\ ready # <<>> /\ Head(ready) = "op"
    /\ IF must_cancel["op"]
       THEN /\ tstate' = [tstate EXCEPT !["op"] = "cancelled"]
            /\ ready' = Tail(ready) \o DoneCallbacks("op", cbRegistered)
            /\ UNCHANGED opLeft
            /\ hist' = [hist EXCEPT !.lateSteps = NoteLate("op"),
                                    !.lastCall = "resume"]
       ELSE IF opLeft > 0
       THEN /\ tstate' = [tstate EXCEPT !["op"] = "blocked"]
            /\ ready' = Tail(ready)
            /\ opLeft' = opLeft - 1
            /\ hist' = [hist EXCEPT !.lateSteps = NoteLate("op"),
                                    !.lastCall = "resume"]
       ELSE /\ tstate' = [tstate EXCEPT !["op"] = "done"]
            /\ ready' = Tail(ready) \o DoneCallbacks("op", cbRegistered)
            /\ UNCHANGED opLeft
            /\ hist' = [hist EXCEPT !.lateSteps = NoteLate("op"),
                                    !.opWon = ~hist.closeSinceStart,
                                    !.lastCall = "resume"]
    /\ UNCHANGED <<close_requested, ev_waiters, futState, must_cancel,
                   opResult, cbRegistered, waiterDone, race>>
    /\ UNCHANGED <<surfaceVars, restVars>>

\* what the operation awaits (I/O, a timer) completes: its task is scheduled
OpIOComplete ==
    /\ tstate["op"] = "blocked"
    /\ ~must_cancel["op"]
    /\ tstate' = [tstate EXCEPT !["op"] = "ready"]
    /\ ready' = Append(ready, "op")
    /\ UNCHANGED <<close_requested, ev_waiters, futState, must_cancel, opLeft,
                   opResult, cbRegistered, waiterDone, race>>
    /\ UNCHANGED <<surfaceVars, restVars>>
    /\ hist' = [hist EXCEPT !.lastCall = "io"]

\* the loop runs a step of the task wrapping self._close_requested.wait()
StepGate ==
    /\ ready # <<>> /\ Head(ready) = "gate"
    /\ IF must_cancel["gate"]
       THEN \* CancelledError at the start or at "await fut"; the finally
            \* clause removes the future from _waiters
            /\ tstate' = [tstate EXCEPT !["gate"] = "cancelled"]
            /\ futState' = [futState EXCEPT !["gate"] = "none"]
            /\ ev_waiters' = Without(ev_waiters, "gate")
            /\ ready' = Tail(ready) \o DoneCallbacks("gate", cbRegistered)
       ELSE IF futState["gate"] = "none"
       THEN \* first step: Event.wait() from its start
            IF EventWaitReturnsNow(close_requested)
            THEN /\ tstate' = [tstate EXCEPT !["gate"] = "done"]
                 /\ ready' = Tail(ready) \o DoneCallbacks("gate", cbRegistered)
                 /\ UNCHANGED <<futState, ev_waiters>>
            ELSE /\ tstate' = [tstate EXCEPT !["gate"] = "blocked"]
                 /\ futState' = [futState EXCEPT !["gate"] = "pending"]
                 /\ ev_waiters' = Append(ev_waiters, "gate")
                 /\ ready' = Tail(ready)
       ELSE \* woken by Event.set(): remove the future, return True
            /\ tstate' = [tstate EXCEPT !["gate"] = "done"]
            /\ futState' = [futState EXCEPT !["gate"] = "none"]
            /\ ev_waiters' = Without(ev_waiters, "gate")
            /\ ready' = Tail(ready) \o DoneCallbacks("gate", cbRegistered)
    /\ UNCHANGED <<close_requested, must_cancel, opLeft, opResult,
                   cbRegistered, waiterDone, race>>
    /\ UNCHANGED <<surfaceVars, restVars>>
    /\ hist' = [hist EXCEPT !.lateSteps = NoteLate("gate"),
                            !.lastCall = "resume"]

\* asyncio.wait's _on_completion(f): with FIRST_COMPLETED the first one to
\* run resolves the waiter future, which schedules the caller
OnCompletion(cb) ==
    /\ ready # <<>> /\ Head(ready) = cb
    /\ IF waiterDone
       THEN /\ ready' = Tail(ready)
            /\ UNCHANGED <<tstate, waiterDone>>
       ELSE /\ waiterDone' = TRUE
            /\ tstate' = [tstate EXCEPT !["caller"] = "ready"]
            /\ ready' = Append(Tail(ready), "caller")
    /\ UNCHANGED <<close_requested, ev_waiters, futState, must_cancel, opLeft,
                   opResult, cbRegistered, race>>
    /\ UNCHANGED <<surfaceVars, restVars>>
    /\ hist' = [hist EXCEPT !.lastCall = "resume"]

\* Task.cancel() on every task of "pending": a task suspended on a future has
\* the future cancelled and its wake-up scheduled; a task whose step is
\* already scheduled gets _must_cancel; either way its next step raises
\* CancelledError inside it.  The task itself is left pending.
CancelPending(pending, ts) ==
    [t \in AllTasks |-> IF t \in pending /\ ts[t] = "blocked" THEN "ready"
                                                              ELSE ts[t]]

CancelWakes(pending, ts) ==
    SelectSeq(<<"op", "gate">>, LAMBDA t : t \in pending /\ ts[t] = "blocked")

\* (mutation of RaceOutcome: the gate is not looked at after the wait)
RaceOutcomeUnchecked(isSet, pick, res) ==
    IF pick = "gate"
    THEN [kind |-> "returned", value |-> GateResult, gateSet |-> isSet]
    ELSE IF res = "error"
         THEN [kind |-> "op_error", value |-> "none", gateSet |-> isSet]
    ELSE [kind |-> "returned", value |-> res, gateSet |-> isSet]

\* lines 289-291: ExitRequest when the gate is closed at that moment,
\* otherwise the result of "next(iter(done))"
RaceOutcome(isSet, pick, res) ==
    IF isSet THEN [kind |-> "exit", value |-> "none", gateSet |-> isSet]
    ELSE IF pick = "gate"
         THEN [kind |-> "returned", value |-> GateResult, gateSet |-> isSet]
    ELSE IF res = "error"
         THEN [kind |-> "op_error", value |-> "none", gateSet |-> isSet]
    ELSE [kind |-> "returned", value |-> res, gateSet |-> isSet]

\* the second half: the caller resumes from asyncio.wait with the sets
\* (done, pending) as they are now, cancels the pending tasks, and ends
coro_unless_closed_resume ==
    /\ ready # <<>> /\ Head(ready) = "caller"
    /\ LET done == {t \in Racers : Finished(tstate, t)}
           pending == Racers \ done
       IN  /\ \E pick \in done :
                 race' = RaceOutcome(close_requested, pick, opResult)
           /\ tstate' = [CancelPending(pending, tstate) EXCEPT !["caller"] = "done"]
           /\ must_cancel' = [t \in AllTasks |-> must_cancel[t] \/ t \in pending]
           /\ futState' = [t \in WaitTasks |->
                             IF t \in pending /\ futState[t] = "pending"
                             THEN "cancelled" ELSE futState[t]]
           /\ ready' = Tail(ready) \o CancelWakes(pending, tstate)
    /\ cbRegistered' = FALSE
    /\ UNCHANGED <<close_requested, ev_waiters, opLeft, opResult, waiterDone>>
    /\ UNCHANGED <<surfaceVars, restVars>>
    /\ hist' = [hist EXCEPT !.lastCall = "resume"]

(***************************************************************************)
(* WebUIManager.start, stop, close_window.                                  *)
(***************************************************************************)
start ==
    /\ running' = TRUE
    /\ UNCHANGED <<gateVars, appShutdown, logVars, invVars, ws_items, builtVars,
                   restVars>>
    /\ hist' = [hist EXCEPT !.lastCall = "start"]

stop ==
    /\ running' = FALSE
    /\ UNCHANGED <<gateVars, appShutdown, logVars, invVars, ws_items, builtVars,
                   restVars>>
    /\ hist' = [hist EXCEPT !.lastCall = "stop"]

\* appShutdown stands for both effects of close_window: the log handler is
\* removed and app.shutdown() is called
close_window ==
    /\ appShutdown' = TRUE
    /\ UNCHANGED <<gateVars, running, logVars, invVars, ws_items, builtVars,
                   restVars>>
    /\ hist' = [hist EXCEPT !.lastCall = "close_window"]

(***************************************************************************)
(* The lifecycle gate on the event loop.                                    *)
(***************************************************************************)
LoopStep ==
    \/ StepOp
    \/ StepGate
    \/ \E w \in Waiters : StepWaiter(w)
    \/ \E cb \in {"cb_op", "cb_gate"} : OnCompletion(cb)
    \/ coro_unless_closed_resume

NextGate ==
    \/ close
    \/ (prevent_close /\ LogWithin(MaxPrevents))
    \/ \E w \in Waiters : wait_until_closed(w)
    \/ coro_unless_closed_start
    \/ OpIOComplete
    \/ LoopStep

SpecGate == Init /\ [][NextGate]_vars

\* the event loop keeps running the callbacks of its ready queue
FairSpecGate == SpecGate /\ WF_vars(LoopStep)

(***************************************************************************)
(* One evaluation of the filter predicate, by both implementations.         *)
(***************************************************************************)
InitFilter ==
    /\ InitManager
    /\ fq \in Queries
    /\ fres = NoResult
    /\ env = NoEnv
    /\ gui_manager = NoManager
    /\ drops = <<>>
    /\ campaign_progress = NoProgress

EvaluateFilter ==
    /\ ~fres.evaluated
    /\ fres' = [evaluated |-> TRUE,
                pkg  |-> should_show_campaign_with_filters(fq.data, fq.filters),
                mono |-> should_show_campaign(fq.data, fq.filters, fq.exclude)]
    /\ UNCHANGED <<gateVars, surfaceVars, fq, threadVars, factoryVars,
                   progressVars, hist>>

NextFilter == EvaluateFilter

SpecFilter == InitFilter /\ [][NextFilter]_vars

(***************************************************************************)
(* The inventory: MockInventory and webui/components/inventory_panel.py.    *)
(***************************************************************************)
\* the campaign objects handed to inv.add_campaign: "active", "upcoming" and
\* "expired" tell whether the attribute is there and true; "progress" is the
\* attribute of that name: 0, a positive number, or a value that is no
\* number ("bad", read as it is by getattr(campaign, 'progress', 0))
AddInputs ==
    { [id |-> "c1", active |-> TRUE, upcoming |-> FALSE, expired |-> FALSE,
       eligible |-> "yes", game |-> "g1", progress |-> "positive"],
      [id |-> "c1", active |-> FALSE, upcoming |-> FALSE, expired |-> TRUE,
       eligible |-> "yes", game |-> "g1", progress |-> "zero"],
      [id |-> "c2", active |-> FALSE, upcoming |-> TRUE, expired |-> FALSE,
       eligible |-> "no", game |-> "g2", progress |-> "bad"],
      [id |-> "absent", active |-> FALSE, upcoming |-> FALSE, expired |-> FALSE,
       eligible |-> "absent", game |-> "absent", progress |-> "zero"] }

\* MockInventory._get_campaign_status
get_campaign_status(campaign) ==
    IF campaign.active THEN "Active"
    ELSE IF campaign.upcoming THEN "Upcoming"
    ELSE IF campaign.expired THEN "Expired"
    ELSE "Unknown"

\* the campaign_data dictionary add_campaign builds
IngestCampaign(campaign) ==
    [status |-> get_campaign_status(campaign), live |-> TRUE,
     eligible |-> campaign.eligible, game |-> campaign.game,
     progress |-> campaign.progress]

\* str(len(self._manager._campaigns))
StrOfLen(n) == CASE n = 0 -> "0" [] n = 1 -> "1" [] n = 2 -> "2" [] OTHER -> "3"

\* getattr(campaign, 'id', str(len(self._manager._campaigns)))
CampaignKey(campaign, cs) ==
    IF campaign.id = "absent" THEN StrOfLen(Len(cs)) ELSE campaign.id

\* (mutation of DictSet: the entry is added even when the key is there)
DictAppend(cs, key, data) == Append(cs, [key |-> key, data |-> data])

\* self._manager._campaigns[campaign_id] = campaign_data: an existing key
\* keeps its place, a new key goes last
DictSet(cs, key, data) ==
    IF \E i \in DOMAIN cs : cs[i].key = key
    THEN [i \in DOMAIN cs |->
            IF cs[i].key = key THEN [key |-> key, data |-> data] ELSE cs[i]]
    ELSE Append(cs, [key |-> key, data |-> data])

Row(kind, key) == [kind |-> kind, key |-> key]

\* what traceback.format_exc() gives: a text of several lines
TracebackText == <<"Traceback (most recent call last):", "  File", "TypeError">>

\* add_campaign_to_display(manager, campaign_data): the elements it leaves in
\* the container and the messages it writes. The card and its name, game and
\* status labels are created before 'progress > 0' is evaluated, so when that
\* comparison raises, the card stays in the container and the handler of the
\* exception adds the error label after it.
add_campaign_to_display(entry) ==
    IF entry.data.progress = "bad"
    THEN [rows  |-> <<Row("partial_card", entry.key), Row("error", entry.key)>>,
          lines |-> << <<"Creating UI for campaign">>,
                       <<"ERROR adding campaign to display">>,
                       TracebackText >>]
    ELSE [rows  |-> <<Row("campaign", entry.key)>>,
          lines |-> << <<"Creating UI for campaign">>,
                       <<"Successfully added campaign">> >>]

\* (mutation of RefreshLoop: the filter predicate is not consulted)
RECURSIVE RefreshLoopAll(_, _)
RefreshLoopAll(cs, filters) ==
    IF cs = <<>> THEN [rows |-> <<>>, lines |-> <<>>, shown |-> 0]
    ELSE LET rest == RefreshLoopAll(Tail(cs), filters)
             card == add_campaign_to_display(Head(cs))
         IN  [rows  |-> card.rows \o rest.rows,
              lines |-> << <<"Adding campaign">> >> \o card.lines \o rest.lines,
              shown |-> rest.shown + 1]

\* the loop of refresh_inventory_display over the store: the rows added, the
\* messages written and shown_count
RECURSIVE RefreshLoop(_, _)
RefreshLoop(cs, filters) ==
    IF cs = <<>> THEN [rows |-> <<>>, lines |-> <<>>, shown |-> 0]
    ELSE LET rest == RefreshLoop(Tail(cs), filters)
             card == add_campaign_to_display(Head(cs))
         IN  IF should_show_campaign_with_filters(Head(cs).data, filters)
             THEN [rows  |-> card.rows \o rest.rows,
                   lines |-> << <<"Adding campaign">> >> \o card.lines
                             \o rest.lines,
                   shown |-> rest.shown + 1]
             ELSE [rows  |-> rest.rows,
                   lines |-> << <<"Filtering out campaign">> >> \o rest.lines,
                   shown |-> rest.shown]

\* the four messages refresh_inventory_display writes before the store is
\* looked at
RefreshHead ==
    << <<"Refreshing display">>, <<"Inventory container type">>,
       <<"Clearing inventory container">>, <<"Container cleared successfully">> >>

\* (mutation of refresh_inventory_display: the container is not cleared)
refresh_keeps_rows(built, cs, filters, rows) ==
    IF ~built
    THEN [rows  |-> rows,
          lines |-> << <<"inventory container not yet initialized">> >>]
    ELSE IF cs = <<>>
         THEN [rows  |-> rows \o <<Row("placeholder_empty", "")>>,
               lines |-> RefreshHead \o << <<"No campaigns found">> >>]
         ELSE LET loop == RefreshLoop(cs, filters)
              IN  [rows  |-> rows \o loop.rows
                             \o (IF loop.shown = 0
                                 THEN <<Row("placeholder_no_match", "")>>
                                 ELSE <<>>),
                   lines |-> RefreshHead \o loop.lines
                             \o << <<"Displayed campaigns">>, <<"Summary">> >>]

\* (mutation of refresh_inventory_display: nothing is added when no campaign
\* passed the filters)
refresh_without_no_match(built, cs, filters, rows) ==
    IF ~built
    THEN [rows  |-> rows,
          lines |-> << <<"inventory container not yet initialized">> >>]
    ELSE IF cs = <<>>
         THEN [rows  |-> <<Row("placeholder_empty", "")>>,
               lines |-> RefreshHead \o << <<"No campaigns found">> >>]
         ELSE LET loop == RefreshLoop(cs, filters)
              IN  [rows  |-> loop.rows,
                   lines |-> RefreshHead \o loop.lines
                             \o << <<"Displayed campaigns">>, <<"Summary">> >>]

\* refresh_inventory_display(manager): the rows of the container and the
\* messages written, from the store, the filters and the current rows
refresh_inventory_display(built, cs, filters, rows) ==
    IF ~built
    THEN [rows  |-> rows,
          lines |-> << <<"inventory container not yet initialized">> >>]
    ELSE LET head == RefreshHead
         IN  IF cs = <<>>
             THEN [rows  |-> <<Row("placeholder_empty", "")>>,
                   lines |-> head \o << <<"No campaigns found">> >>]
             ELSE LET loop == RefreshLoop(cs, filters)
                  IN  IF loop.shown = 0
                      THEN [rows  |-> loop.rows \o <<Row("placeholder_no_match", "")>>,
                            lines |-> head \o loop.lines
                                      \o << <<"Displayed campaigns">>,
                                            <<"No campaigns passed filters">> >>]
                      ELSE [rows  |-> loop.rows,
                            lines |-> head \o loop.lines
                                      \o << <<"Displayed campaigns">>,
                                            <<"Campaigns should now be visible">> >>]

\* several print() calls in a row
RECURSIVE PrintAllLog(_, _)
PrintAllLog(log, messages) ==
    IF messages = <<>> THEN log
    ELSE PrintAllLog(ManagerPrint(log, Head(messages)), Tail(messages))

RECURSIVE PrintAllView(_, _, _)
PrintAllView(view, built, messages) ==
    IF messages = <<>> THEN view
    ELSE PrintAllView(ConsolePush(view, built, Head(messages)), built,
                      Tail(messages))

\* MockInventory.clear
inv_clear ==
    LET r == refresh_inventory_display(ui_built, <<>>, inventory_filters, inv_rows)
        lines == IF ui_built THEN r.lines ELSE <<>>
    IN  /\ campaigns' = <<>>
        /\ inv_rows' = IF ui_built THEN r.rows ELSE inv_rows
        /\ console_log' = PrintAllLog(console_log, lines)
        /\ console_view' = PrintAllView(console_view, ui_built, lines)
        /\ UNCHANGED <<gateVars, lifeVars, inventory_filters, ws_items, builtVars,
                       restVars>>
        /\ hist' = [hist EXCEPT !.lastCall = "inv.clear"]

\* MockInventory.add_campaign
add_campaign(campaign) ==
    LET cs == DictSet(campaigns, CampaignKey(campaign, campaigns),
                      IngestCampaign(campaign))
        r == refresh_inventory_display(ui_built, cs, inventory_filters, inv_rows)
        lines == (IF ui_built THEN r.lines ELSE <<>>) \o << <<"Added campaign">> >>
    IN  /\ campaigns' = cs
        /\ inv_rows' = IF ui_built THEN r.rows ELSE inv_rows
        /\ console_log' = PrintAllLog(console_log, lines)
        /\ console_view' = PrintAllView(console_view, ui_built, lines)
        /\ UNCHANGED <<gateVars, lifeVars, inventory_filters, ws_items, builtVars,
                       restVars>>
        /\ hist' = [hist EXCEPT !.lastCall = "inv.add_campaign"]

\* update_filter(manager, filter_name, value)
update_filter(name, value) ==
    LET fs == [inventory_filters EXCEPT ![name] = value]
        r == refresh_inventory_display(ui_built, campaigns, fs, inv_rows)
        lines == << <<"Filter set">> >> \o r.lines
    IN  /\ inventory_filters' = fs
        /\ inv_rows' = r.rows
        /\ console_log' = PrintAllLog(console_log, lines)
        /\ console_view' = PrintAllView(console_view, ui_built, lines)
        /\ UNCHANGED <<gateVars, lifeVars, campaigns, ws_items, builtVars,
                       restVars>>
        /\ hist' = [hist EXCEPT !.lastCall = "update_filter"]

\* the page function index() of _setup_ui: every widget is created anew (the
\* console empty, the inventory container with its two initial labels), then
\* _apply_initial_styles prints the theme message
index ==
    /\ ui_built' = TRUE
    /\ panel' = PanelCreated
    /\ inv_rows' = <<Row("placeholder_initial", ""), Row("debug_label", "")>>
    /\ console_log' = ManagerPrint(console_log, <<"Theme changed">>)
    /\ console_view' = ConsolePush(<<>>, TRUE, <<"Theme changed">>)
    /\ UNCHANGED <<gateVars, lifeVars, campaigns, inventory_filters, ws_items,
                   restVars>>
    /\ hist' = [hist EXCEPT !.lastCall = "index"]

(***************************************************************************)
(* The console and the websocket status.                                    *)
(***************************************************************************)
\* the messages handed to print() from outside
Messages == {<<"m2", "", "m3">>}

\* WebUIManager.print(message), also reached through MockOutput.print
manager_print(message) ==
    /\ console_log' = ManagerPrint(console_log, message)
    /\ console_view' = ConsolePush(console_view, ui_built, message)
    /\ UNCHANGED <<gateVars, lifeVars, invVars, ws_items, builtVars, restVars>>
    /\ hist' = [hist EXCEPT !.lastCall = "print"]

WsStatuses == {"connected"}
WsTopics == {5}

\* the entry of idx after 'if idx not in self._items: self._items[idx] = ...'
WsSeeded(items, idx) ==
    IF items[idx].present THEN items[idx]
    ELSE [present |-> TRUE, status |-> "disconnected", topics |-> 0]

\* (mutation of ws_update: the entry is seeded before the arguments are
\* checked)
ws_update_seeds_first(idx, hasStatus, status, hasTopics, topics) ==
    /\ IF ~hasStatus /\ ~hasTopics
       THEN ws_items' = [ws_items EXCEPT ![idx] = WsSeeded(ws_items, idx)]
       ELSE LET withStatus == IF hasStatus
                              THEN [WsSeeded(ws_items, idx) EXCEPT !.status = status]
                              ELSE WsSeeded(ws_items, idx)
                withTopics == IF hasTopics
                              THEN [withStatus EXCEPT !.topics = topics]
                              ELSE withStatus
            IN  ws_items' = [ws_items EXCEPT ![idx] = withTopics]
    /\ UNCHANGED <<gateVars, lifeVars, logVars, invVars, builtVars, restVars>>
    /\ hist' = [hist EXCEPT !.lastCall = IF ~hasStatus /\ ~hasTopics
                                          THEN "websockets.update TypeError"
                                          ELSE "websockets.update"]

\* (mutation of ws_update: a field that is not supplied goes back to its
\* default)
ws_update_resets(idx, hasStatus, status, hasTopics, topics) ==
    /\ IF ~hasStatus /\ ~hasTopics
       THEN UNCHANGED ws_items
       ELSE ws_items' = [ws_items EXCEPT ![idx] =
                [present |-> TRUE,
                 status  |-> IF hasStatus THEN status ELSE "disconnected",
                 topics  |-> IF hasTopics THEN topics ELSE 0]]
    /\ UNCHANGED <<gateVars, lifeVars, logVars, invVars, builtVars, restVars>>
    /\ hist' = [hist EXCEPT !.lastCall = IF ~hasStatus /\ ~hasTopics
                                          THEN "websockets.update TypeError"
                                          ELSE "websockets.update"]

\* MockWebsocketStatus.update(idx, status, topics); hasStatus and hasTopics
\* tell which of the two optional arguments is not None
ws_update(idx, hasStatus, status, hasTopics, topics) ==
    /\ IF ~hasStatus /\ ~hasTopics
       THEN \* raise TypeError
            UNCHANGED ws_items
       ELSE LET seeded == WsSeeded(ws_items, idx)
                withStatus == IF hasStatus
                              THEN [seeded EXCEPT !.status = status] ELSE seeded
                withTopics == IF hasTopics
                              THEN [withStatus EXCEPT !.topics = topics]
                              ELSE withStatus
            IN  ws_items' = [ws_items EXCEPT ![idx] = withTopics]
    /\ UNCHANGED <<gateVars, lifeVars, logVars, invVars, builtVars, restVars>>
    /\ hist' = [hist EXCEPT !.lastCall = IF ~hasStatus /\ ~hasTopics
                                          THEN "websockets.update TypeError"
                                          ELSE "websockets.update"]

\* MockWebsocketStatus.remove(idx)
ws_remove(idx) ==
    /\ ws_items' = [ws_items EXCEPT ![idx] = WsAbsent]
    /\ UNCHANGED <<gateVars, lifeVars, logVars, invVars, builtVars, restVars>>
    /\ hist' = [hist EXCEPT !.lastCall = "websockets.remove"]

(***************************************************************************)
(* The status, progress and login displays.                                 *)
(***************************************************************************)
StatusTexts == {"Mining"}

\* (mutation of status_update: the widgets are written without the test for
\* None and outside the try block)
status_update_unguarded(text) ==
    /\ panel' = IF ui_built
                THEN [panel EXCEPT !.status_card = text, !.status_label = text]
                ELSE panel
    /\ UNCHANGED <<gateVars, lifeVars, logVars, invVars, ws_items, ui_built,
                   restVars>>
    /\ hist' = [hist EXCEPT !.lastCall = IF ui_built THEN "status.update"
                                          ELSE "status.update AttributeError"]

\* MockStatus.update(text)
status_update(text) ==
    /\ panel' = [panel EXCEPT
                   !.status_card  = IF @ # "None" THEN text ELSE @,
                   !.status_label = IF @ # "None" THEN text ELSE @]
    /\ UNCHANGED <<gateVars, lifeVars, logVars, invVars, ws_items, ui_built,
                   restVars>>
    /\ hist' = [hist EXCEPT !.lastCall = "status.update"]

\* MockStatus.clear(): self.update("")
status_clear ==
    /\ panel' = [panel EXCEPT
                   !.status_card  = IF @ # "None" THEN "" ELSE @,
                   !.status_label = IF @ # "None" THEN "" ELSE @]
    /\ UNCHANGED <<gateVars, lifeVars, logVars, invVars, ws_items, ui_built,
                   restVars>>
    /\ hist' = [hist EXCEPT !.lastCall = "status.clear"]

\* what clear_drop leaves in the widgets
DropCleared(p) ==
    [p EXCEPT !.progress_bar   = IF @ # "None" THEN "0" ELSE @,
              !.progress_label = IF @ # "None" THEN "No active drops" ELSE @]

\* WebUIManager.clear_drop()
clear_drop ==
    /\ panel' = DropCleared(panel)
    /\ UNCHANGED <<gateVars, lifeVars, logVars, invVars, ws_items, ui_built,
                   restVars>>
    /\ hist' = [hist EXCEPT !.lastCall = "clear_drop"]

\* the drops handed to display_drop: None, or an object whose attribute
\* "progress" is absent, 50, 150 or no number, and that has a name or not
DropInputs ==
    { [none |-> TRUE, progress |-> "absent", named |-> FALSE],
      [none |-> FALSE, progress |-> "50", named |-> TRUE],
      [none |-> FALSE, progress |-> "150", named |-> FALSE],
      [none |-> FALSE, progress |-> "bad", named |-> TRUE],
      [none |-> FALSE, progress |-> "absent", named |-> TRUE] }

\* drop.progress / 100.0 if drop.progress <= 100 else drop.progress
ProgressValue(progress) == IF progress = "50" THEN "0.5" ELSE progress

\* WebUIManager.display_drop(drop): a progress that is no number makes the
\* comparison raise once the bar exists; the exception is caught and the
\* label is not reached
display_drop(drop) ==
    /\ panel' =
         IF drop.none THEN DropCleared(panel)
         ELSE IF drop.progress = "bad" /\ panel.progress_bar # "None" THEN panel
         ELSE [panel EXCEPT
                 !.progress_bar =
                     IF drop.progress # "absent" /\ @ # "None"
                     THEN ProgressValue(drop.progress) ELSE @,
                 !.progress_label =
                     IF @ = "None" THEN @
                     ELSE IF drop.named THEN "Mining: name"
                     ELSE "Mining drop..."]
    /\ UNCHANGED <<gateVars, lifeVars, logVars, invVars, ws_items, ui_built,
                   restVars>>
    /\ hist' = [hist EXCEPT !.lastCall = "display_drop"]

\* MockProgress.display(drop): pass
progress_display(drop) ==
    /\ UNCHANGED <<gateVars, surfaceVars, restVars>>
    /\ hist' = [hist EXCEPT !.lastCall = "progress.display"]

\* MockOutput.print(message): self._manager.print(message)
output_print(message) ==
    /\ console_log' = ManagerPrint(console_log, message)
    /\ console_view' = ConsolePush(console_view, ui_built, message)
    /\ UNCHANGED <<gateVars, lifeVars, invVars, ws_items, builtVars, restVars>>
    /\ hist' = [hist EXCEPT !.lastCall = "output.print"]

\* MockLoginForm.update(status, user_id): one line for the console
login_update ==
    /\ console_log' = ManagerPrint(console_log, <<"Login status">>)
    /\ console_view' = ConsolePush(console_view, ui_built, <<"Login status">>)
    /\ UNCHANGED <<gateVars, lifeVars, invVars, ws_items, builtVars, restVars>>
    /\ hist' = [hist EXCEPT !.lastCall = "login.update"]

(***************************************************************************)
(* The control surface: the methods the controller and the page call.       *)
(***************************************************************************)
\* the checkboxes of the filter row the runs toggle
Toggled == {"active", "expired"}

NextSurface ==
    \/ close
    \/ (prevent_close /\ LogWithin(MaxLog))
    \/ start
    \/ stop
    \/ close_window
    \/ (index /\ LogWithin(MaxLog))
    \/ (inv_clear /\ LogWithin(MaxLog))
    \/ \E c \in AddInputs :
          add_campaign(c) /\ LogWithin(MaxLog) /\ Len(campaigns') <= MaxCampaigns
    \/ \E name \in Toggled, value \in BOOLEAN :
          update_filter(name, value) /\ LogWithin(MaxLog)
    \/ \E m \in Messages : manager_print(m) /\ LogWithin(MaxLog)
    \/ \E i \in WsIdx, hs \in BOOLEAN, s \in WsStatuses, ht \in BOOLEAN,
          t \in WsTopics : ws_update(i, hs, s, ht, t)
    \/ \E i \in WsIdx : ws_remove(i)

SpecSurface == Init /\ [][NextSurface]_vars

(***************************************************************************)
(* The websocket status map on its own.                                     *)
(***************************************************************************)
\* the status texts and topic counts the runs of the map pass
WsStatusArgs == {"connected", "connecting"}
WsTopicArgs == {5, 7}

NextWs ==
    \/ \E i \in WsAll, hs \in BOOLEAN, s \in WsStatusArgs, ht \in BOOLEAN,
          t \in WsTopicArgs : ws_update(i, hs, s, ht, t)
    \/ \E i \in WsAll : ws_remove(i)

SpecWs == Init /\ [][NextWs]_vars

(***************************************************************************)
(* The rendered view: the page is loaded, and the inventory handlers run    *)
(* against the constructed container.                                       *)
(***************************************************************************)
\* how often the page function has run: each run writes the theme message
PageLoads ==
    Cardinality({i \in DOMAIN console_log : console_log[i] = <<"Theme changed">>})

\* the checkboxes of the filter row the runs of the rendered view toggle
ViewToggled == {"active", "upcoming"}

NextView ==
    \/ (PageLoads < MaxLoads /\ index /\ LogWithin(MaxViewLog))
    \/ (ui_built /\ inv_clear /\ LogWithin(MaxViewLog))
    \/ \E c \in AddInputs :
          /\ ui_built
          /\ add_campaign(c)
          /\ LogWithin(MaxViewLog)
          /\ Len(campaigns') <= MaxCampaigns
    \/ \E name \in ViewToggled, value \in BOOLEAN :
          ui_built /\ update_filter(name, value) /\ LogWithin(MaxViewLog)

SpecView == Init /\ [][NextView]_vars

(***************************************************************************)
(* The console on its own: print() calls around a page load.                *)
(***************************************************************************)
NextConsole ==
    \/ (PageLoads < MaxLoads /\ index /\ LogWithin(MaxPrints))
    \/ \E m \in Messages : manager_print(m) /\ LogWithin(MaxPrints)

SpecConsole == Init /\ [][NextConsole]_vars

(***************************************************************************)
(* The display methods of the control surface, before and after the page    *)
(* is loaded.                                                               *)
(***************************************************************************)
NextDisplay ==
    \/ (PageLoads < MaxLoads /\ index /\ LogWithin(MaxDisplayLog))
    \/ \E text \in StatusTexts : status_update(text)
    \/ status_clear
    \/ clear_drop
    \/ \E drop \in DropInputs : display_drop(drop)
    \/ \E drop \in DropInputs : progress_display(drop)
    \/ (inv_clear /\ LogWithin(MaxDisplayLog))
    \/ \E c \in AddInputs :
          /\ add_campaign(c)
          /\ LogWithin(MaxDisplayLog)
          /\ Len(campaigns') <= MaxCampaigns
    \/ \E m \in Messages : manager_print(m) /\ LogWithin(MaxDisplayLog)
    \/ \E m \in Messages : output_print(m) /\ LogWithin(MaxDisplayLog)
    \/ (login_update /\ LogWithin(MaxDisplayLog))

SpecDisplay == Init /\ [][NextDisplay]_vars

(***************************************************************************)
(* Properties of the lifecycle gate.                                        *)
(***************************************************************************)

\* C1: when close() is called while a coro_unless_closed call is pending on
\* an operation that has not completed, and prevent_close() is not called
\* afterwards, the call never returns a value (nor the operation's own
\* exception) and eventually raises ExitRequest.
C1_CloseRaisesExit ==
    /\ [](hist.closedPending => race.kind \in {"none", "exit"})
    /\ (hist.closedPending ~> (race.kind = "exit" \/ ~hist.closedPending))

C1_Witness == hist.closedPending /\ race.kind = "exit"

\* C2: when coro_unless_closed has returned or raised, both racing tasks
\* have finished (none is still pending) and neither runs a step afterwards.
C2_LoserJoined ==
    race.kind # "none" =>
        /\ \A t \in Racers : Finished(tstate, t)
        /\ hist.lateSteps = {}

C4_PreventCloseReopens ==
    /\ [][prevent_close => ~close_requested']_vars
    /\ [](\A w \in Waiters : tstate[w] \in {"ready", "done"} => hist.sawClose[w])

C4_Witness ==
    /\ hist.recovered /\ ~close_requested
    /\ hist.lastCall = "wait_until_closed"
    /\ \E w \in Waiters : tstate[w] = "blocked" /\ ~hist.sawClose[w]

\* C5: close() on a gate that is already closed changes nothing: not the
\* gate, not its waiters, not the loop, not any other state of the manager.
C5_CloseIdempotent ==
    [][(close /\ close_requested) => UNCHANGED <<gateVars, surfaceVars>>]_vars

C5_Witness == hist.lastCall = "close again" /\ close_requested

\* C6: wait_until_closed() suspends its caller while the gate is open, and
\* one close() releases every waiter: none is left suspended after it.
C6_CloseReleasesAll ==
    [][/\ close => \A w \in Waiters : tstate'[w] # "blocked"
       /\ \A w \in Waiters :
            (wait_until_closed(w) /\ ~close_requested) => tstate'[w] = "blocked"
      ]_vars

C6_Witness ==
    /\ hist.lastCall = "close"
    /\ \A w \in Waiters : tstate[w] = "ready"

(***************************************************************************)
(* Properties of the control surface.                                       *)
(***************************************************************************)
\* C7: close() only requests shutdown. Every call leaves the close-requested
\* flag set and leaves the running flag, the campaign store, the filter set,
\* the websocket map, the console log and the view as they were, and the
\* application is not shut down by it (close_window / app.shutdown are not
\* invoked).
C7_CloseOnlyRequests ==
    [][close => /\ close_requested'
                /\ UNCHANGED <<running, campaigns, inventory_filters, ws_items,
                               console_log>>
                /\ UNCHANGED <<console_view, inv_rows, builtVars>>
                /\ UNCHANGED appShutdown]_vars

\* close() has just set the flag of a running manager whose store, filters,
\* websocket map and console log all hold something
C7_Witness ==
    /\ hist.lastCall = "close"
    /\ close_requested
    /\ running
    /\ ~appShutdown
    /\ campaigns # <<>>
    /\ \E name \in FilterNames : inventory_filters[name]
    /\ \E i \in WsIdx : ws_items[i].present
    /\ console_log # <<>>

(***************************************************************************)
(* Properties of the filter predicate.                                      *)
(***************************************************************************)
AllFlagsOff(filters) == \A f \in FilterNames : ~filters[f]

FlagOfStatus(data, filters) ==
    IF Lower(data.status) \in Buckets THEN filters[Lower(data.status)] ELSE FALSE

\* C8 as stated: with all six flags false no campaign is visible, synthetic
\* or live, whatever its status.
C8_AllOffHidesAll ==
    (fres.evaluated /\ AllFlagsOff(fq.filters)) => (~fres.pkg /\ ~fres.mono)

\* C8 as amended: with all six flags false, every synthetic campaign is
\* hidden, and so is every live campaign whose status is one of Upcoming,
\* Active, Expired, Finished.
C8_AllOffHidesSyntheticAndBuckets ==
    (/\ fres.evaluated
     /\ AllFlagsOff(fq.filters)
     /\ (~fq.data.live \/ Lower(fq.data.status) \in Buckets))
    => (~fres.pkg /\ ~fres.mono)

C8_Witness ==
    /\ fres.evaluated /\ AllFlagsOff(fq.filters)
    /\ fq.data.live /\ fq.data.status = "Active"
    /\ ~fres.pkg /\ ~fres.mono

\* C9: for a synthetic campaign and a filter set with some flag on, the
\* result is the flag of the campaign's status, FALSE for a status outside
\* the four buckets; not_linked and excluded have no say.
C9_SyntheticFollowsStatusFlag ==
    (fres.evaluated /\ ~fq.data.live /\ ~AllFlagsOff(fq.filters)) =>
        /\ fres.pkg = FlagOfStatus(fq.data, fq.filters)
        /\ fres.mono = FlagOfStatus(fq.data, fq.filters)

C9_Witness ==
    /\ fres.evaluated /\ ~fq.data.live
    /\ fq.data.status = "Finished" /\ fq.filters["finished"]
    /\ fq.filters["not_linked"] /\ ~fq.filters["excluded"]
    /\ fres.pkg /\ fres.mono

\* C10: a live campaign that is not eligible is hidden whenever not_linked
\* is on, whatever its status and the other five flags: the check comes
\* before the status buckets.
C10_NotLinkedHidesIneligible ==
    (/\ fres.evaluated /\ fq.data.live
     /\ fq.data.eligible = "no" /\ fq.filters["not_linked"])
    => (~fres.pkg /\ ~fres.mono)

C10_Witness ==
    /\ fres.evaluated /\ fq.data.live
    /\ fq.data.eligible = "no" /\ fq.filters["not_linked"]
    /\ fq.data.status = "Active" /\ fq.filters["active"]
    /\ ~fres.pkg /\ ~fres.mono

\* C11: a live campaign whose status is none of the four buckets, and that
\* the not_linked rule does not hide, is hidden exactly when its game is in
\* the excluded game list and the excluded flag is off. Stated of both
\* implementations of the predicate.
C11_ExcludedFallback ==
    (/\ fres.evaluated
     /\ fq.data.live
     /\ Lower(fq.data.status) \notin Buckets
     /\ ~(fq.filters["not_linked"] /\ ~Eligible(fq.data)))
    => LET hidden == fq.data.game \in fq.exclude /\ ~fq.filters["excluded"]
       IN  /\ fres.pkg = ~hidden
           /\ fres.mono = ~hidden

\* C26: for a live campaign that the not_linked rule does not hide and whose
\* status is one of the four buckets, the result is the flag of that status,
\* whatever the excluded flag and the excluded game list are. Stated of both
\* implementations of the predicate.
C26_StatusFlagBeforeExcluded ==
    (/\ fres.evaluated
     /\ fq.data.live
     /\ ~(fq.filters["not_linked"] /\ ~Eligible(fq.data))
     /\ Lower(fq.data.status) \in Buckets)
    => /\ fres.pkg = fq.filters[Lower(fq.data.status)]
       /\ fres.mono = fq.filters[Lower(fq.data.status)]

C26_Witness ==
    /\ fres.evaluated /\ fq.data.live
    /\ fq.data.status = "Active" /\ fq.filters["active"]
    /\ fq.data.game = "g1" /\ fq.exclude = {"g1"} /\ ~fq.filters["excluded"]
    /\ fres.pkg /\ fres.mono

(***************************************************************************)
(* Properties of the rendered view.                                         *)
(***************************************************************************)
\* the handlers that end with refresh_inventory_display once the container
\* exists
RefreshCalls == {"inv.clear", "inv.add_campaign", "update_filter"}

\* the last step was a refresh of the constructed view
Refreshed == ui_built /\ hist.lastCall \in RefreshCalls

\* the keys of the rows of the given kinds, in the order of the container
KeysOfRows(rows, kinds) ==
    LET sel == SelectSeq(rows, LAMBDA r : r.kind \in kinds)
    IN  [i \in DOMAIN sel |-> sel[i].key]

\* the stored campaigns the predicate lets through, in the order of the store
VisibleEntries(cs, filters) ==
    SelectSeq(cs, LAMBDA c : should_show_campaign_with_filters(c.data, filters))

KeysOfEntries(cs) == [i \in DOMAIN cs |-> cs[i].key]

\* C12: after a refresh of the constructed view on an empty store the view
\* holds the empty-store placeholder and nothing else, whatever it held before
\* and whatever the filters are.
C12_EmptyStoreOnePlaceholder ==
    (Refreshed /\ campaigns = <<>>) => inv_rows = <<Row("placeholder_empty", "")>>

\* inv.clear() has emptied a store whose campaign was on display, with a
\* filter on
C12_Witness ==
    /\ Refreshed /\ hist.lastCall = "inv.clear"
    /\ campaigns = <<>>
    /\ inventory_filters["active"]
    /\ inv_rows = <<Row("placeholder_empty", "")>>
    /\ \E i \in DOMAIN console_log : console_log[i] = <<"Successfully added campaign">>

\* no stored campaign that passes the filters has a progress value the
\* rendering fails on
NoRenderingFault ==
    \A i \in DOMAIN campaigns :
        should_show_campaign_with_filters(campaigns[i].data, inventory_filters)
            => campaigns[i].data.progress # "bad"

\* C13: after a refresh on a non-empty store with no rendering fault, the
\* campaign rows of the view are the stored campaigns that pass the filters:
\* each once, none of the hidden ones, in the insertion order of the store.
C13_RowsAreVisibleCampaigns ==
    (Refreshed /\ campaigns # <<>> /\ NoRenderingFault) =>
        /\ KeysOfRows(inv_rows, {"campaign"})
             = KeysOfEntries(VisibleEntries(campaigns, inventory_filters))
        /\ \A i \in DOMAIN inv_rows :
             inv_rows[i].kind \in {"campaign", "placeholder_no_match"}

\* two campaigns are stored, the first passes the filters and the second does
\* not, and the view holds the one row
C13_Witness ==
    /\ Refreshed /\ NoRenderingFault
    /\ Len(campaigns) = 2
    /\ should_show_campaign_with_filters(campaigns[1].data, inventory_filters)
    /\ ~should_show_campaign_with_filters(campaigns[2].data, inventory_filters)
    /\ inv_rows = <<Row("campaign", campaigns[1].key)>>

\* C14: after a refresh on a non-empty store the view holds the "no matches"
\* placeholder exactly when no campaign row and no error row was rendered; it
\* does not hold the empty-store placeholder, and it is never left empty.
C14_NoMatchPlaceholder ==
    (Refreshed /\ campaigns # <<>>) =>
        /\ (\E i \in DOMAIN inv_rows : inv_rows[i].kind = "placeholder_no_match")
             <=> KeysOfRows(inv_rows, {"campaign", "error", "partial_card"}) = <<>>
        /\ \A i \in DOMAIN inv_rows : inv_rows[i].kind # "placeholder_empty"
        /\ inv_rows # <<>>

\* the stored campaigns are all filtered out and the view holds the
\* "no matches" placeholder alone
C14_Witness ==
    /\ Refreshed /\ campaigns # <<>>
    /\ VisibleEntries(campaigns, inventory_filters) = <<>>
    /\ inv_rows = <<Row("placeholder_no_match", "")>>

\* C15: when the rendering of one visible campaign fails during a refresh,
\* the view shows that campaign as one error row and nothing else, and every
\* other visible campaign as one normal row.
C15_FaultIsOneErrorRow ==
    (Refreshed /\ campaigns # <<>>) =>
        \A i \in DOMAIN campaigns :
            should_show_campaign_with_filters(campaigns[i].data, inventory_filters)
            => LET mine == SelectSeq(inv_rows, LAMBDA r : r.key = campaigns[i].key)
               IN  IF campaigns[i].data.progress = "bad"
                   THEN mine = <<Row("error", campaigns[i].key)>>
                   ELSE mine = <<Row("campaign", campaigns[i].key)>>

(***************************************************************************)
(* Properties of the websocket status map.                                  *)
(***************************************************************************)
\* C16: websockets.update(idx) with neither status nor topics raises the
\* TypeError and leaves the map as it was: an absent index is not seeded and
\* an existing entry keeps its status and topics.
C16_UpdateWithoutFieldsFails ==
    [][\A i \in WsAll, s \in WsStatusArgs, t \in WsTopicArgs :
         ws_update(i, FALSE, s, FALSE, t)
         => /\ hist'.lastCall = "websockets.update TypeError"
            /\ ws_items' = ws_items]_vars

\* the call has just failed on a map that holds an updated entry for index 0
\* and none for index 1
C16_Witness ==
    /\ hist.lastCall = "websockets.update TypeError"
    /\ ws_items[0] = [present |-> TRUE, status |-> "connected", topics |-> 5]
    /\ ~ws_items[1].present

\* C17: websockets.update(idx, ...) with at least one field leaves at idx the
\* supplied fields, and for a field that was not supplied the value the entry
\* had, or the default (disconnected, 0) when there was no entry; the entries
\* of the other indices are unchanged.
C17_UpdateSeedsThenOverwrites ==
    [][\A i \in WsAll, hs \in BOOLEAN, s \in WsStatusArgs, ht \in BOOLEAN,
          t \in WsTopicArgs :
         (ws_update(i, hs, s, ht, t) /\ (hs \/ ht))
         => /\ ws_items'[i].present
            /\ ws_items'[i].status =
                 IF hs THEN s
                 ELSE IF ws_items[i].present THEN ws_items[i].status
                 ELSE "disconnected"
            /\ ws_items'[i].topics =
                 IF ht THEN t
                 ELSE IF ws_items[i].present THEN ws_items[i].topics
                 ELSE 0
            /\ \A j \in WsAll \ {i} : ws_items'[j] = ws_items[j]]_vars

\* update(0, status=connected) and update(0, topics=5) have run: index 0
\* holds both, next to an entry of index 1 that was seeded with the default
\* status
C17_Witness ==
    /\ hist.lastCall = "websockets.update"
    /\ ws_items[0] = [present |-> TRUE, status |-> "connected", topics |-> 5]
    /\ ws_items[1] = [present |-> TRUE, status |-> "disconnected", topics |-> 7]

(***************************************************************************)
(* Properties of the console.                                               *)
(***************************************************************************)
\* C18: the console log never holds more entries than the fixed capacity, the
\* one capacity the code has being that of the log widget.
C18_LogWithinCapacity == Len(console_log) <= ConsoleMaxLines

(***************************************************************************)
(* Properties of the display methods.                                       *)
(***************************************************************************)
\* what hist.lastCall holds when the call ended with an exception
RaisingOutcomes == {"websockets.update TypeError", "status.update AttributeError"}

\* one call of a display method of the control surface
DisplayCall ==
    \/ \E text \in StatusTexts : status_update(text)
    \/ status_clear
    \/ clear_drop
    \/ \E drop \in DropInputs : display_drop(drop)
    \/ \E drop \in DropInputs : progress_display(drop)
    \/ inv_clear
    \/ \E c \in AddInputs : add_campaign(c)
    \/ \E m \in Messages : manager_print(m)
    \/ \E m \in Messages : output_print(m)
    \/ login_update

\* C19: a display method called while the view is not constructed (the widget
\* references are None) completes without raising and does nothing to the
\* view: the console widget, the inventory container and the status and
\* progress widgets stay as they were.
C19_SafeBeforeFirstRender ==
    [][(~ui_built /\ DisplayCall)
       => /\ hist'.lastCall \notin RaisingOutcomes
          /\ UNCHANGED <<console_view, inv_rows, panel, ui_built>>]_vars

\* display_drop has run on a manager that was never rendered, after a
\* campaign was added and a line was printed
C19_Witness ==
    /\ ~ui_built
    /\ hist.lastCall = "display_drop"
    /\ campaigns # <<>>
    /\ Len(console_log) = 2
    /\ panel = PanelNone /\ console_view = <<>> /\ inv_rows = <<>>

(***************************************************************************)
(* Properties of the campaign store.                                        *)
(***************************************************************************)
\* the keys of the store
StoreKeys(cs) == {cs[i].key : i \in DOMAIN cs}

\* the data stored under a key that is there
StoreData(cs, key) == cs[CHOOSE i \in DOMAIN cs : cs[i].key = key].data

\* C20: inv.add_campaign of a campaign with id X inserts or overwrites by id:
\* afterwards the store holds exactly one entry for X, with the data ingested
\* by this call; the entries of the other ids are as they were; and the store
\* has grown by one when X was new and not at all when X was there.
C20_AddCampaignUpserts ==
    [][\A c \in AddInputs :
         (add_campaign(c) /\ c.id # "absent")
         => /\ Cardinality({i \in DOMAIN campaigns' : campaigns'[i].key = c.id}) = 1
            /\ StoreData(campaigns', c.id) = IngestCampaign(c)
            /\ StoreKeys(campaigns') = StoreKeys(campaigns) \cup {c.id}
            /\ \A k \in StoreKeys(campaigns) \ {c.id} :
                 StoreData(campaigns', k) = StoreData(campaigns, k)
            /\ Len(campaigns') =
                 IF c.id \in StoreKeys(campaigns) THEN Len(campaigns)
                 ELSE Len(campaigns) + 1]_vars

\* three campaigns were added, two of them with the id c1: the store holds
\* two entries, and c1 carries the data of the later call
C20_Witness ==
    /\ hist.lastCall = "inv.add_campaign"
    /\ Cardinality({i \in DOMAIN console_log :
                      console_log[i] = <<"Added campaign">>}) = 3
    /\ Len(campaigns) = 2
    /\ StoreKeys(campaigns) = {"c1", "c2"}
    /\ StoreData(campaigns, "c1").status = "Expired"

(***************************************************************************)
(* Two schedulers: the NiceGUI server thread started by _start_server runs  *)
(* the page function and the handlers of the UI events, while the           *)
(* application calls the manager on its own asyncio loop. Nothing passes a  *)
(* handler from one thread to the other, so a handler of the server thread  *)
(* is interleaved with the calls of the loop statement by statement.        *)
(***************************************************************************)
\* manager._twitch.inventory: the campaigns the twitch client holds
TwitchInventory ==
    << [id |-> "c1", active |-> TRUE, upcoming |-> FALSE, expired |-> FALSE,
        eligible |-> "yes", game |-> "g1", progress |-> "positive"],
       [id |-> "c2", active |-> FALSE, upcoming |-> TRUE, expired |-> FALSE,
        eligible |-> "yes", game |-> "g2", progress |-> "zero"] >>

\* refresh_inventory(manager), up to the loop: the message, then
\* manager._campaigns.clear()
refresh_inventory_begin ==
    /\ ui_built
    /\ srv.pc = "idle"
    /\ campaigns' = <<>>
    /\ console_log' = ManagerPrint(console_log, <<"Refreshing inventory...">>)
    /\ console_view' = ConsolePush(console_view, ui_built,
                                   <<"Refreshing inventory...">>)
    /\ srv' = [pc |-> "filling", todo |-> TwitchInventory,
               old |-> StoreKeys(campaigns)]
    /\ UNCHANGED <<gateVars, lifeVars, inventory_filters, inv_rows, ws_items,
                   builtVars, pureVars>>
    /\ hist' = [hist EXCEPT !.lastCall = "refresh_inventory"]

\* one turn of the loop of refresh_inventory:
\* manager._campaigns[campaign.id] = campaign_data
refresh_inventory_insert ==
    /\ srv.pc = "filling"
    /\ srv.todo # <<>>
    /\ campaigns' = DictSet(campaigns, Head(srv.todo).id,
                            IngestCampaign(Head(srv.todo)))
    /\ srv' = [srv EXCEPT !.todo = Tail(@)]
    /\ UNCHANGED <<gateVars, lifeVars, logVars, inventory_filters, inv_rows,
                   ws_items, builtVars, pureVars>>
    /\ hist' = [hist EXCEPT !.lastCall = "refresh_inventory"]

\* the end of refresh_inventory: the message with the number of campaigns,
\* then refresh_inventory_display(manager)
refresh_inventory_end ==
    LET r == refresh_inventory_display(ui_built, campaigns, inventory_filters,
                                       inv_rows)
        lines == << <<"Loaded real campaigns">> >> \o r.lines
    IN  /\ srv.pc = "filling"
        /\ srv.todo = <<>>
        /\ inv_rows' = r.rows
        /\ console_log' = PrintAllLog(console_log, lines)
        /\ console_view' = PrintAllView(console_view, ui_built, lines)
        /\ srv' = SrvIdle
        /\ UNCHANGED <<gateVars, lifeVars, campaigns, inventory_filters,
                       ws_items, builtVars, pureVars>>
        /\ hist' = [hist EXCEPT !.lastCall = "refresh_inventory"]

\* the checkboxes of the filter row the runs of the two threads toggle
ThreadToggled == {"active"}

\* what the server thread runs, one handler at a time: the page function,
\* the Stop button (on_click=manager.close), a filter checkbox
\* (on_change -> update_filter) and the Refresh button
\* (on_click -> refresh_inventory)
ServerStep ==
    \/ (PageLoads < MaxLoads /\ srv.pc = "idle" /\ index
          /\ LogWithin(MaxThreadLog))
    \/ (ui_built /\ srv.pc = "idle" /\ close)
    \/ \E name \in ThreadToggled, value \in BOOLEAN :
          /\ ui_built
          /\ srv.pc = "idle"
          /\ update_filter(name, value)
          /\ LogWithin(MaxThreadLog)
    \/ (refresh_inventory_begin /\ LogWithin(MaxThreadLog))
    \/ refresh_inventory_insert
    \/ (refresh_inventory_end /\ LogWithin(MaxThreadLog))

\* what the application calls on its asyncio loop while the page is up
LoopCall ==
    \/ \E c \in AddInputs :
          /\ ui_built
          /\ add_campaign(c)
          /\ LogWithin(MaxThreadLog)
          /\ Len(campaigns') <= MaxCampaigns + 1
    \/ (ui_built /\ srv.pc = "idle" /\ inv_clear /\ LogWithin(MaxThreadLog))

NextThreads ==
    \/ ServerStep
    \/ LoopCall

SpecThreads == Init /\ [][NextThreads]_vars

(***************************************************************************)
(* Properties of the two schedulers.                                        *)
(***************************************************************************)
\* the ids of the campaigns a refresh loads
NewKeys == {TwitchInventory[i].id : i \in DOMAIN TwitchInventory}

\* C21: refresh_inventory replaces the store atomically: a redraw made by
\* the asyncio loop (inv.add_campaign) while a refresh is in progress on the
\* server thread reads a store that holds every campaign of the old
\* snapshot or every campaign of the new one, never an emptied or partly
\* refilled store.
C21_ReplaceAllAtomic ==
    (srv.pc # "idle" /\ hist.lastCall = "inv.add_campaign")
    => (srv.old \subseteq StoreKeys(campaigns)
        \/ NewKeys \subseteq StoreKeys(campaigns))

\* C22: a handler run by the server thread never changes the store, the
\* filters or the close gate.
C22_ServerThreadNeverMutates ==
    [][ServerStep => UNCHANGED <<campaigns, inventory_filters, close_requested>>]_vars

(***************************************************************************)
(* create_gui_manager (ui_factory.py): the selection of the UI backend.     *)
(***************************************************************************)
\* os.getenv(name, default)
GetEnv(value, default) == IF value = Unset THEN default ELSE value

\* the values of UI_BACKEND the runs set
BackendValues == {Unset, "tkinter", "Tkinter", "nicegui", "NiceGUI", "web", ""}

\* str.lower() on those strings
LowerBackend(text) ==
    CASE text = "Tkinter" -> "tkinter"
      [] text = "NiceGUI" -> "nicegui"
      [] OTHER            -> text

\* the values of WEBUI_HOST and WEBUI_PORT the runs set
HostValues == {Unset, "0.0.0.0"}
PortValues == {Unset, "8080", "9000", "abc"}

\* int(text): the number, or -1 where int raises ValueError
ParsePort(text) ==
    CASE text = "8080" -> 8080
      [] text = "9000" -> 9000
      [] OTHER         -> -1

Environments ==
    [UI_BACKEND : BackendValues, WEBUI_HOST : HostValues,
     WEBUI_PORT : PortValues, nicegui : BOOLEAN]

\* create_gui_manager(twitch) in the environment e: the manager returned, or
\* the exception that leaves the function. WebUIManager.__init__ raises
\* ImportError when nicegui is missing, after host and port were read.
create_gui_manager(e) ==
    LET ui_backend == LowerBackend(GetEnv(e.UI_BACKEND, "tkinter"))
        host == GetEnv(e.WEBUI_HOST, "127.0.0.1")
        port == ParsePort(GetEnv(e.WEBUI_PORT, "8080"))
        desktop == [kind |-> "GUIManager", host |-> "", port |-> 0]
    IN  IF ui_backend = "nicegui"
        THEN IF port = -1
             THEN [kind |-> "ValueError", host |-> "", port |-> 0,
                   warned |-> FALSE]
             ELSE IF e.nicegui
                  THEN [kind |-> "WebUIManager", host |-> host, port |-> port,
                        warned |-> FALSE]
                  ELSE desktop @@ [warned |-> TRUE]
        ELSE IF ui_backend = "tkinter"
             THEN desktop @@ [warned |-> FALSE]
             ELSE desktop @@ [warned |-> TRUE]

InitFactory ==
    /\ InitManager
    /\ fq = NoQuery
    /\ fres = NoResult
    /\ env \in Environments
    /\ gui_manager = NoManager
    /\ drops = <<>>
    /\ campaign_progress = NoProgress

CallFactory ==
    /\ gui_manager = NoManager
    /\ gui_manager' = create_gui_manager(env)
    /\ UNCHANGED <<gateVars, surfaceVars, filterVars, threadVars, env,
                   progressVars, hist>>

NextFactory == CallFactory

SpecFactory == InitFactory /\ [][NextFactory]_vars

\* C23: the selection never fails and returns a usable backend: the
\* dashboard only when UI_BACKEND is the dashboard value and nicegui is
\* there, with host 127.0.0.1 and port 8080 unless set; the desktop backend
\* without a warning when UI_BACKEND is unset or the desktop value, and with
\* a warning when the value is unknown or nicegui is missing.
C23_SelectionNeverFatal ==
    gui_manager # NoManager =>
        LET backend == LowerBackend(GetEnv(env.UI_BACKEND, "tkinter"))
        IN  /\ gui_manager.kind \in {"GUIManager", "WebUIManager"}
            /\ gui_manager.kind = "WebUIManager"
                 <=> (backend = "nicegui" /\ env.nicegui)
            /\ gui_manager.kind = "WebUIManager" =>
                 /\ env.WEBUI_HOST = Unset => gui_manager.host = "127.0.0.1"
                 /\ env.WEBUI_PORT = Unset => gui_manager.port = 8080
            /\ gui_manager.kind = "GUIManager" =>
                 (gui_manager.warned <=> backend # "tkinter")

(***************************************************************************)
(* get_campaign_progress (webui/utils.py): the progress of a campaign.      *)
(***************************************************************************)
\* the drops of a campaign: "minutes" tells whether the drop has both
\* attributes current_minutes and required_minutes. required_minutes is 0
\* or 2, so that the quotient times 100 is a whole number.
DropObjects ==
    {[minutes |-> FALSE, current_minutes |-> 0, required_minutes |-> 0]}
    \cup [minutes : {TRUE}, current_minutes : 0..3, required_minutes : {0, 2}]

\* (current_minutes / required_minutes) * 100
Percent(drop) == (drop.current_minutes * 100) \div drop.required_minutes

\* get_campaign_progress(campaign): the value of the first drop that reports
\* minutes with required_minutes > 0, or 0.0
RECURSIVE get_campaign_progress(_)
get_campaign_progress(ds) ==
    IF ds = <<>> THEN 0
    ELSE IF Head(ds).minutes /\ Head(ds).required_minutes > 0
         THEN Percent(Head(ds))
         ELSE get_campaign_progress(Tail(ds))

DropLists == UNION {[1..n -> DropObjects] : n \in 0..MaxDrops}

InitProgress ==
    /\ InitManager
    /\ fq = NoQuery
    /\ fres = NoResult
    /\ env = NoEnv
    /\ gui_manager = NoManager
    /\ drops \in DropLists
    /\ campaign_progress = NoProgress

EvaluateProgress ==
    /\ ~campaign_progress.evaluated
    /\ campaign_progress' = [evaluated |-> TRUE,
                             value |-> get_campaign_progress(drops)]
    /\ UNCHANGED <<gateVars, surfaceVars, filterVars, threadVars, factoryVars,
                   drops, hist>>

NextProgress == EvaluateProgress

SpecProgress == InitProgress /\ [][NextProgress]_vars

\* C24: the progress computed for a campaign lies within 0..100 and is the
\* largest of the drops' current_minutes / required_minutes * 100, clamped
\* into 0..100, or 0 when no drop reports minutes; so it is the same for
\* every order of the drops.
C24_ProgressIsClampedMaximum ==
    campaign_progress.evaluated =>
        LET reporting == {i \in DOMAIN drops :
                            drops[i].minutes /\ drops[i].required_minutes > 0}
            clamped(i) == IF Percent(drops[i]) > 100 THEN 100
                          ELSE Percent(drops[i])
        IN  /\ campaign_progress.value \in 0..100
            /\ IF reporting = {} THEN campaign_progress.value = 0
               ELSE /\ \E i \in reporting : campaign_progress.value = clamped(i)
                    /\ \A i \in reporting : campaign_progress.value >= clamped(i)

(***************************************************************************)
(* Properties of the progress display.                                      *)
(***************************************************************************)
\* C25: once the page is built, progress.display(None) leaves the bar at 0
\* and the label at 'No active drops', and progress.display(drop) with a
\* drop whose progress is a number leaves the bar at progress / 100 when
\* progress <= 100 and at progress otherwise.
C25_ProgressDisplayShowsDrop ==
    [][\A drop \in DropInputs :
         (ui_built /\ progress_display(drop))
         => /\ drop.none => /\ panel'.progress_bar = "0"
                            /\ panel'.progress_label = "No active drops"
            /\ (~drop.none /\ drop.progress \in {"50", "150"})
                 => panel'.progress_bar = ProgressValue(drop.progress)]_vars

(***************************************************************************)
(* Properties of the view across page loads.                                *)
(***************************************************************************)
\* C27: whenever the inventory container exists, also right after a page
\* load has created it over a store that is not empty, its campaign rows are
\* the stored campaigns that pass the filters (rendering faults aside): each
\* once, in the insertion order of the store, and none that is stale.
C27_ViewConsistent ==
    (ui_built /\ NoRenderingFault) =>
        KeysOfRows(inv_rows, {"campaign"})
            = KeysOfEntries(VisibleEntries(campaigns, inventory_filters))

(***************************************************************************)
(* Properties of the value coro_unless_closed returns.                      *)
(***************************************************************************)
\* C28: whenever coro_unless_closed returns a value, the value is the result
\* of the wrapped operation and the operation has run to its end: the result
\* of the gate's Event.wait() is never returned, and an operation that was
\* cancelled is never reported as a success, whatever close() and
\* prevent_close() calls come in between.
C28_ReturnsOperationResult ==
    race.kind = "returned" =>
        /\ race.value = opResult
        /\ race.value # GateResult
        /\ tstate["op"] = "done"
        /\ ~must_cancel["op"]

(***************************************************************************)
(* The two paths from a campaign object to its visibility: the monolithic   *)
(* webui.py and the package webui/.                                         *)
(***************************************************************************)
\* webui.py: WebUIManager._get_campaign_status(campaign)
monolith_get_campaign_status(campaign) ==
    IF campaign.active THEN "Active"
    ELSE IF campaign.upcoming THEN "Upcoming"
    ELSE "Expired"

PathQueries == [campaign : AddInputs, filters : FilterSets, exclude : ExcludeLists]

InitPaths ==
    /\ InitManager
    /\ fq \in PathQueries
    /\ fres = NoResult
    /\ env = NoEnv
    /\ gui_manager = NoManager
    /\ drops = <<>>
    /\ campaign_progress = NoProgress

\* both paths on the same campaign object, filters and excluded game list
EvaluatePaths ==
    LET data == IngestCampaign(fq.campaign)
        pkg_status == get_campaign_status(fq.campaign)
        mono_status == monolith_get_campaign_status(fq.campaign)
    IN  /\ ~fres.evaluated
        /\ fres' = [evaluated |-> TRUE,
                    pkg_status |-> pkg_status,
                    mono_status |-> mono_status,
                    pkg |-> should_show_campaign_with_filters(
                                [data EXCEPT !.status = pkg_status], fq.filters),
                    mono |-> should_show_campaign(
                                [data EXCEPT !.status = mono_status], fq.filters,
                                fq.exclude)]
        /\ UNCHANGED <<gateVars, surfaceVars, fq, threadVars, factoryVars,
                       progressVars, hist>>

NextPaths == EvaluatePaths

SpecPaths == InitPaths /\ [][NextPaths]_vars

\* C29: for every live campaign, filter set and excluded game list, the
\* monolithic path and the package path derive the same status and give the
\* same visibility.
C29_PathsAgree ==
    fres.evaluated =>
        /\ fres.pkg_status = fres.mono_status
        /\ fres.pkg = fres.mono

(***************************************************************************)
(* The store on its own: campaigns with and without an id.                  *)
(***************************************************************************)
\* the campaign objects these runs add: one with the id "1" and two without
\* an id, each with data of its own
StoreInputs ==
    { [id |-> "1", active |-> TRUE, upcoming |-> FALSE, expired |-> FALSE,
       eligible |-> "yes", game |-> "g1", progress |-> "zero"],
      [id |-> "absent", active |-> FALSE, upcoming |-> TRUE, expired |-> FALSE,
       eligible |-> "yes", game |-> "g2", progress |-> "zero"],
      [id |-> "absent", active |-> FALSE, upcoming |-> FALSE, expired |-> TRUE,
       eligible |-> "yes", game |-> "g1", progress |-> "positive"] }

NextStore ==
    \/ \E c \in StoreInputs :
          /\ add_campaign(c)
          /\ LogWithin(MaxStoreLog)
          /\ Len(campaigns') <= MaxCampaigns + 1
    \/ inv_clear

SpecStore == Init /\ [][NextStore]_vars

\* C30: inv.add_campaign never overwrites the entry of another campaign:
\* every entry that held another campaign before the call is still there
\* after it, and the added campaign has exactly one entry, so that the store
\* has as many entries as distinct campaigns were added since the last
\* clear.
C30_AddNeverOverwritesOther ==
    [][\A c \in StoreInputs :
         add_campaign(c)
         => /\ \A i \in DOMAIN campaigns :
                 campaigns[i].data # IngestCampaign(c)
                 => \E j \in DOMAIN campaigns' : campaigns'[j] = campaigns[i]
            /\ Cardinality({j \in DOMAIN campaigns' :
                              campaigns'[j].data = IngestCampaign(c)}) = 1]_vars

====
